---- MODULE Spec2Model ----
(***************************************************************************)
(* The image manager of the shifter image gateway                          *)
(* (src/imagegw/src/imagemngr.py), called from the threaded flask API      *)
(* (src/imagegw/shifter_imagegw/imagegwapi.py, app.run(threaded=True)).    *)
(*                                                                         *)
(* One imagemngr object is shared by all request threads.  Its state is    *)
(* the mongo collection self.images, the in-memory list self.tasks and the *)
(* in-memory dict self.task_image_id; the celery side is the sequence of   *)
(* submitted jobs with the state each AsyncResult reports.  Every call of  *)
(* a public method is run by a thread, one store call or one celery call   *)
(* per step, so that calls of different threads interleave between them.   *)
(***************************************************************************)
EXTENDS Integers, Sequences, FiniteSets, TLC

\* At most MaxCalls calls are made in a run of the model, at most MaxPulls of
\* them calls of pull.
MaxPulls == 2
MaxCalls == 4

\* Request threads of the API process.
Threads == {"t1", "t2"}

\* Image keys callers ask for: (system, itype, tag).
Keys ==
  { [system |-> "edison", itype |-> "docker", tag |-> "ubuntu:15.04"],
    [system |-> "cori",   itype |-> "docker", tag |-> "centos:7"] }

\* Credentials handed to the manager: one the backend accepts, one it rejects.
Credentials == {"good", "bad"}

\* A mongo _id is the position of the document in the collection: documents are
\* appended by insert and never removed, and find_one returns the first match.
None == 0

VARIABLES
  images,         \* self.images: the mongo collection, in insertion order
  tasks,          \* self.tasks: list of tracked handles
  task_image_id,  \* self.task_image_id: dict handle -> _id
  jobs,           \* celery: the submitted jobs, a handle is a position here
  thr,            \* per thread: position in the running call and its locals
  enq,            \* history: per document, times its status was moved into ENQUEUED
  seenReady,      \* history: ids for which a get_state call has returned READY
  justExpired,    \* history: key of the expire call that returned last, with
                  \* no other call started since (or NoKey)
  pulls,          \* history: number of pull calls started
  calls,          \* history: number of calls started
  pulledKeys,     \* history: keys pull has been called with
  restarted       \* history: ids of the records that were ENQUEUED or PENDING
                  \* when the process restarted

vars ==
  <<images, tasks, task_image_id, jobs, thr, enq, seenReady, justExpired, pulls,
    calls, pulledKeys, restarted>>

NoKey == [system |-> "-", itype |-> "-", tag |-> "-"]

\* ---------------------------------------------------------------- results

NoRes == [kind |-> "none", id |-> 0, status |-> "-", tag |-> "-"]
IdRes(id) == [kind |-> "id", id |-> id, status |-> "-", tag |-> "-"]
RecRes(r) == [kind |-> "rec", id |-> r._id, status |-> r.status, tag |-> r.tag]
StatusRes(s) == [kind |-> "status", id |-> 0, status |-> s, tag |-> "-"]
AckRes == [kind |-> "ack", id |-> 0, status |-> "-", tag |-> "-"]
\* An exception leaving the method: status names what raised it.
ExcRes(e) == [kind |-> "exc", id |-> 0, status |-> e, tag |-> "-"]

\* ---------------------------------------------------------------- store

\* A query on the image type alone.
Matching_m(imgs, key) == { i \in 1..Len(imgs) : imgs[i].itype = key.itype }

\* images.find_one({'system':..,'itype':..,'tag':..}): the _id of the first
\* document matching the key, None if there is none.
Matching(imgs, key) ==
  { i \in 1..Len(imgs) : /\ imgs[i].system = key.system
                         /\ imgs[i].itype = key.itype
                         /\ imgs[i].tag = key.tag }

FindOne(imgs, key) ==
  IF Matching(imgs, key) = {} THEN None
  ELSE CHOOSE i \in Matching(imgs, key) : \A j \in Matching(imgs, key) : i <= j

\* images.find_one({'_id':id}).
FindById(imgs, id) == IF id \in 1..Len(imgs) THEN id ELSE None

\* isready comparing with celery's name of the final state, which is never stored.
isready_m(imgs, key) ==
  LET r == FindOne(imgs, key) IN r # None /\ imgs[r].status = "SUCCESS"

\* isready: the key's document exists and its status is READY.
isready(imgs, key) ==
  LET r == FindOne(imgs, key) IN r # None /\ imgs[r].status = "READY"

\* new_image_record's document: the defaults, then every field of the request,
\* with the _id that insert gives it.
newimage(key, id) ==
  [ _id |-> id, format |-> "ext4", arch |-> "amd64", os |-> "linux",
    location |-> "", remotetype |-> "dockerv2", ostcount |-> "0",
    replication |-> "1", userAcl |-> <<>>, groupAcl |-> <<>>,
    status |-> "UNKNOWN",
    system |-> key.system, itype |-> key.itype, tag |-> key.tag ]

\* update_mongo_state: SUCCESS is stored as READY; an update that matches no
\* document changes nothing.
\* update_mongo_state without lines 147-148.
StoredState_m(state) == state

StoredState(state) == IF state = "SUCCESS" THEN "READY" ELSE state

\* An update that leaves a READY or FAILURE status alone.
update_mongo_state_m(imgs, id, state) ==
  IF id \in 1..Len(imgs) /\ imgs[id].status \notin {"READY", "FAILURE"}
  THEN [imgs EXCEPT ![id].status = StoredState(state)]
  ELSE imgs

update_mongo_state(imgs, id, state) ==
  IF id \in 1..Len(imgs)
  THEN [imgs EXCEPT ![id].status = StoredState(state)]
  ELSE imgs

\* History of update_mongo_state: one more move into ENQUEUED when the write
\* changes the status of an existing document to ENQUEUED.
EnqAfter(e, imgs, id, state) ==
  IF id \in 1..Len(imgs) /\ StoredState(state) = "ENQUEUED"
     /\ imgs[id].status # "ENQUEUED"
  THEN [e EXCEPT ![id] = @ + 1]
  ELSE e

\* ---------------------------------------------------------------- threads

IdleThread ==
  [ pc |-> "idle", op |-> "-", key |-> NoKey, arg |-> 0,
    ready |-> FALSE, i |-> 0, state |-> "-", id |-> 0, handle |-> 0,
    res |-> NoRes,
    \* history of the running call
    preStatus |-> "-", preId |-> 0, preSeen |-> FALSE, afterExpire |-> FALSE,
    preSucceeded |-> FALSE, preLost |-> FALSE, auth |-> "-",
    nsub |-> 0, ntask |-> 0 ]

\* The status a key's document has (NONE without a document).
StatusOf(imgs, key) ==
  IF FindOne(imgs, key) = None THEN "NONE" ELSE imgs[FindOne(imgs, key)].status

PcValues ==
  { "idle", "update_states", "update_write", "find_one", "insert",
    "set_enqueued", "apply_async", "track_append", "get_find", "expire", "done" }

TypeOK ==
  /\ Len(jobs) <= MaxPulls
  /\ pulls <= MaxPulls
  /\ calls <= MaxCalls
  /\ Len(enq) = Len(images)
  /\ \A t \in Threads : thr[t].pc \in PcValues

Init ==
  /\ images = <<>>
  /\ tasks = <<>>
  /\ task_image_id = <<>>
  /\ jobs = <<>>
  /\ thr = [t \in Threads |-> IdleThread]
  /\ enq = <<>>
  /\ seenReady = {}
  /\ justExpired = NoKey
  /\ pulls = 0
  /\ calls = 0
  /\ pulledKeys = {}
  /\ restarted = {}

\* ---------------------------------------------------------------- calls

\* lookup, line 76: self.auth.authenticate(auth) raises on a credential the
\* backend rejects; the exception leaves lookup and its callers.
authenticate(auth) == auth = "good"

\* Jobs were submitted for the key and the worker has ended every one of them
\* with SUCCESS.
Succeeded(key) ==
  /\ \E h \in 1..Len(jobs) : jobs[h].request = key
  /\ \A h \in 1..Len(jobs) : jobs[h].request = key => jobs[h].state = "SUCCESS"

\* The key of the document with this _id (NoKey without a document).
KeyOf(imgs, id) ==
  IF id \in 1..Len(imgs)
  THEN [system |-> imgs[id].system, itype |-> imgs[id].itype, tag |-> imgs[id].tag]
  ELSE NoKey

\* The history a call keeps of the state it was made in.
Called(t, op, key, arg) ==
  [ IdleThread EXCEPT
      !.op = op, !.key = key, !.arg = arg,
      !.preSucceeded = CASE op = "lookup" -> Succeeded(key)
                         [] op = "get_state" -> Succeeded(KeyOf(images, arg))
                         [] OTHER -> FALSE,
      !.preLost = (op = "get_state" /\ arg \in restarted),
      !.preStatus = IF op = "pull" THEN StatusOf(images, key) ELSE "-",
      !.preId = IF op = "pull" THEN FindOne(images, key) ELSE 0,
      !.preSeen = (op = "get_state" /\ arg \in seenReady),
      !.afterExpire = (op = "lookup" /\ justExpired = key) ]

\* A pull that goes on whatever authenticate says of the credential.
PullCall_m(t) ==
  /\ thr[t].pc = "idle"
  /\ pulls < MaxPulls
  /\ \E key \in Keys, auth \in Credentials :
       /\ thr' = [thr EXCEPT ![t] =
            [ Called(t, "pull", key, 0) EXCEPT
                !.auth = auth,
                !.ready = isready(images, key),
                !.pc = "update_states", !.i = 1 ]]
       /\ pulledKeys' = pulledKeys \cup {key}
  /\ pulls' = pulls + 1
  /\ justExpired' = NoKey
  /\ calls < MaxCalls
  /\ calls' = calls + 1
  /\ UNCHANGED <<images, tasks, task_image_id, jobs, enq, seenReady, restarted>>

\* pull(auth, request), lines 125-126 and 142: self.isready(request), then in
\* both branches new_image_record, which starts with lookup: authenticate
\* (line 76), then update_states (line 80).
PullCall(t) ==
  /\ thr[t].pc = "idle"
  /\ pulls < MaxPulls
  /\ \E key \in Keys, auth \in Credentials :
       /\ thr' = [thr EXCEPT ![t] =
            IF authenticate(auth)
            THEN [ Called(t, "pull", key, 0) EXCEPT
                     !.auth = auth,
                     !.ready = isready(images, key),
                     !.pc = "update_states", !.i = 1 ]
            ELSE [ Called(t, "pull", key, 0) EXCEPT
                     !.auth = auth,
                     !.ready = isready(images, key),
                     !.pc = "done", !.res = ExcRes("AuthError") ]]
       /\ pulledKeys' = pulledKeys \cup {key}
  /\ pulls' = pulls + 1
  /\ justExpired' = NoKey
  /\ calls < MaxCalls
  /\ calls' = calls + 1
  /\ UNCHANGED <<images, tasks, task_image_id, jobs, enq, seenReady, restarted>>

\* lookup(auth, image), lines 76-80: authenticate, then update_states.
LookupCall(t) ==
  /\ thr[t].pc = "idle"
  /\ \E key \in Keys, auth \in Credentials :
       thr' = [thr EXCEPT ![t] =
         IF authenticate(auth)
         THEN [ Called(t, "lookup", key, 0) EXCEPT
                  !.auth = auth, !.pc = "update_states", !.i = 1 ]
         ELSE [ Called(t, "lookup", key, 0) EXCEPT
                  !.auth = auth, !.pc = "done", !.res = ExcRes("AuthError") ]]
  /\ justExpired' = NoKey
  /\ calls < MaxCalls
  /\ calls' = calls + 1
  /\ UNCHANGED <<images, tasks, task_image_id, jobs, enq,
                 seenReady, pulls, pulledKeys, restarted>>

\* get_state(id), line 157: update_states.  The id is one of a document or one
\* that no document has.
GetStateCall(t) ==
  /\ thr[t].pc = "idle"
  /\ \E id \in 1..(Len(images) + 1) :
       thr' = [thr EXCEPT ![t] =
         [ Called(t, "get_state", NoKey, id) EXCEPT !.pc = "update_states", !.i = 1 ]]
  /\ justExpired' = NoKey
  /\ calls < MaxCalls
  /\ calls' = calls + 1
  /\ UNCHANGED <<images, tasks, task_image_id, jobs, enq,
                 seenReady, pulls, pulledKeys, restarted>>

\* expire(auth, system, type, tag, id), line 180.
ExpireCall(t) ==
  /\ thr[t].pc = "idle"
  /\ \E key \in Keys :
       thr' = [thr EXCEPT ![t] = [ Called(t, "expire", key, 0) EXCEPT !.pc = "expire" ]]
  /\ justExpired' = NoKey
  /\ calls < MaxCalls
  /\ calls' = calls + 1
  /\ UNCHANGED <<images, tasks, task_image_id, jobs, enq,
                 seenReady, pulls, pulledKeys, restarted>>

\* update_states, lines 167-170: the loop takes the next element of the live
\* list self.tasks and reads the state its AsyncResult reports; past the end of
\* the list the loop is over and the caller goes on.
UpdateStatesRead(t) ==
  /\ thr[t].pc = "update_states"
  /\ IF thr[t].i <= Len(tasks)
     THEN thr' = [thr EXCEPT ![t].state = jobs[tasks[thr[t].i]].state,
                             ![t].pc = "update_write"]
     ELSE thr' = [thr EXCEPT ![t].i = 0,
                             ![t].pc = IF thr[t].op = "get_state"
                                       THEN "get_find" ELSE "find_one"]
  /\ UNCHANGED <<images, tasks, task_image_id, jobs, enq, seenReady,
                 justExpired, pulls, calls, pulledKeys, restarted>>

\* update_states, line 175: self.update_mongo_state(self.task_image_id[req],
\* state); a handle missing from the dict raises KeyError.
UpdateStatesWrite(t) ==
  /\ thr[t].pc = "update_write"
  /\ LET req == tasks[thr[t].i] IN
     IF req \in DOMAIN task_image_id
     THEN /\ images' = update_mongo_state(images, task_image_id[req], thr[t].state)
          /\ enq' = EnqAfter(enq, images, task_image_id[req], thr[t].state)
          /\ thr' = [thr EXCEPT ![t].i = @ + 1, ![t].state = "-",
                                ![t].pc = "update_states"]
     ELSE /\ thr' = [thr EXCEPT ![t].pc = "done", ![t].i = 0, ![t].state = "-",
                                ![t].ready = FALSE,
                                ![t].res = ExcRes("KeyError")]
          /\ UNCHANGED <<images, enq>>
  /\ UNCHANGED <<tasks, task_image_id, jobs, seenReady, justExpired,
                 pulls, calls, pulledKeys, restarted>>

\* new_image_record without its lines 100-101: it inserts whether or not lookup
\* found a record.
LookupFindOne_m(t) ==
  /\ thr[t].pc = "find_one"
  /\ LET r == FindOne(images, thr[t].key) IN
     thr' = [thr EXCEPT ![t] =
       IF thr[t].op = "lookup"
       THEN [ @ EXCEPT !.pc = "done",
                       !.res = IF r = None THEN NoRes ELSE RecRes(images[r]) ]
       ELSE [ @ EXCEPT !.pc = "insert" ]]
  /\ UNCHANGED <<images, tasks, task_image_id, jobs, enq, seenReady,
                 justExpired, pulls, calls, pulledKeys, restarted>>

\* lookup, lines 81-83: rec=self.images.find_one(q); return rec.  Called by the
\* API it is the result; called by new_image_record (lines 99-101) an existing
\* record is returned to pull, which takes its _id (lines 127, 143) and, when
\* isready said READY, returns it (line 144).
LookupFindOne(t) ==
  /\ thr[t].pc = "find_one"
  /\ LET r == FindOne(images, thr[t].key) IN
     thr' = [thr EXCEPT ![t] =
       CASE thr[t].op = "lookup" ->
              [ @ EXCEPT !.pc = "done",
                         !.res = IF r = None THEN NoRes ELSE RecRes(images[r]) ]
         [] thr[t].op = "pull" /\ r = None ->
              [ @ EXCEPT !.pc = "insert" ]
         [] thr[t].op = "pull" /\ r # None /\ thr[t].ready ->
              [ @ EXCEPT !.pc = "done", !.ready = FALSE, !.res = IdRes(r) ]
         [] thr[t].op = "pull" /\ r # None /\ ~thr[t].ready ->
              [ @ EXCEPT !.pc = "set_enqueued", !.id = r ] ]
  /\ UNCHANGED <<images, tasks, task_image_id, jobs, enq, seenReady,
                 justExpired, pulls, calls, pulledKeys, restarted>>

\* new_image_record, lines 102-115: no record was found, so a new document is
\* inserted and returned; pull takes its _id.
NewImageRecordInsert(t) ==
  /\ thr[t].pc = "insert"
  /\ LET id == Len(images) + 1 IN
     /\ images' = Append(images, newimage(thr[t].key, id))
     /\ enq' = Append(enq, 0)
     /\ thr' = [thr EXCEPT ![t] =
          IF thr[t].ready
          THEN [ @ EXCEPT !.pc = "done", !.ready = FALSE, !.res = IdRes(id) ]
          ELSE [ @ EXCEPT !.pc = "set_enqueued", !.id = id ]]
  /\ UNCHANGED <<tasks, task_image_id, jobs, seenReady, justExpired,
                 pulls, calls, pulledKeys, restarted>>

\* pull without its update_mongo_state(id,'ENQUEUED').
PullSetEnqueued_m(t) ==
  /\ thr[t].pc = "set_enqueued"
  /\ thr' = [thr EXCEPT ![t].pc = "apply_async"]
  /\ UNCHANGED <<images, enq, tasks, task_image_id, jobs, seenReady,
                 justExpired, pulls, calls, pulledKeys, restarted>>

\* pull, line 129: self.update_mongo_state(id,'ENQUEUED').
PullSetEnqueued(t) ==
  /\ thr[t].pc = "set_enqueued"
  /\ images' = update_mongo_state(images, thr[t].id, "ENQUEUED")
  /\ enq' = EnqAfter(enq, images, thr[t].id, "ENQUEUED")
  /\ thr' = [thr EXCEPT ![t].pc = "apply_async"]
  /\ UNCHANGED <<tasks, task_image_id, jobs, seenReady, justExpired,
                 pulls, calls, pulledKeys, restarted>>

\* pull without its line 137.
TrackId_m(dict, pullreq, id) == dict

\* pull, line 137: self.task_image_id[pullreq]=id.
TrackId(dict, pullreq, id) ==
  [ h \in DOMAIN dict \cup {pullreq} |-> IF h = pullreq THEN id ELSE dict[h] ]

\* pull, lines 132-137: dopull.apply_async([request],queue=request['system']).
\* The broker takes the job and the handle that comes back is entered in
\* self.task_image_id, or the call raises and the exception leaves pull.
\* Every caller (imagegwapi.py line 119, imagemngr.py line 210) leaves delay at
\* its default True, so the handle is always an AsyncResult.
PullApplyAsync(t) ==
  /\ thr[t].pc = "apply_async"
  /\ \E accepted \in BOOLEAN :
       IF accepted
       THEN /\ jobs' = Append(jobs, [ request |-> thr[t].key,
                                      queue |-> thr[t].key.system,
                                      state |-> "PENDING" ])
            /\ task_image_id' = TrackId(task_image_id, Len(jobs) + 1, thr[t].id)
            /\ thr' = [thr EXCEPT ![t].handle = Len(jobs) + 1,
                                  ![t].nsub = @ + 1,
                                  ![t].pc = "track_append"]
       ELSE /\ thr' = [thr EXCEPT ![t].pc = "done",
                                  ![t].res = ExcRes("DispatchError")]
            /\ UNCHANGED <<jobs, task_image_id>>
  /\ UNCHANGED <<images, tasks, enq, seenReady, justExpired,
                 pulls, calls, pulledKeys, restarted>>

\* pull, lines 138 and 144: self.tasks.append(pullreq); return id.
PullTrackAppend(t) ==
  /\ thr[t].pc = "track_append"
  /\ tasks' = Append(tasks, thr[t].handle)
  /\ thr' = [thr EXCEPT ![t].pc = "done", ![t].ntask = @ + 1,
                        ![t].res = IdRes(thr[t].id)]
  /\ UNCHANGED <<images, task_image_id, jobs, enq, seenReady, justExpired,
                 pulls, calls, pulledKeys, restarted>>

\* get_state, line 158: self.images.find_one({'_id':id},{'status':1})['status'];
\* without a matching document find_one gives None and the subscript raises
\* TypeError.
GetStateFind(t) ==
  /\ thr[t].pc = "get_find"
  /\ LET r == FindById(images, thr[t].arg) IN
     thr' = [thr EXCEPT ![t].pc = "done",
                        ![t].res = IF r = None THEN ExcRes("TypeError")
                                   ELSE StatusRes(images[r].status)]
  /\ UNCHANGED <<images, tasks, task_image_id, jobs, enq, seenReady,
                 justExpired, pulls, calls, pulledKeys, restarted>>

\* An expire that also forgets the tracked handles.
Expire_m(t) ==
  /\ thr[t].pc = "expire"
  /\ thr' = [thr EXCEPT ![t].pc = "done", ![t].res = AckRes]
  /\ tasks' = <<>>
  /\ task_image_id' = <<>>
  /\ UNCHANGED <<images, jobs, enq, seenReady,
                 justExpired, pulls, calls, pulledKeys, restarted>>

\* expire, lines 183-184: resp=dict(); return resp.
Expire(t) ==
  /\ thr[t].pc = "expire"
  /\ thr' = [thr EXCEPT ![t].pc = "done", ![t].res = AckRes]
  /\ UNCHANGED <<images, tasks, task_image_id, jobs, enq, seenReady,
                 justExpired, pulls, calls, pulledKeys, restarted>>

\* The method returns (or its exception leaves it) and the thread is free for
\* the next request.
Return(t) ==
  /\ thr[t].pc = "done"
  /\ thr' = [thr EXCEPT ![t] = IdleThread]
  /\ seenReady' = IF thr[t].op = "get_state" /\ thr[t].res.status = "READY"
                  THEN seenReady \cup {thr[t].arg} ELSE seenReady
  /\ justExpired' = IF thr[t].op = "expire" /\ thr[t].res.kind = "ack"
                    THEN thr[t].key ELSE justExpired
  /\ UNCHANGED <<images, tasks, task_image_id, jobs, enq,
                 pulls, calls, pulledKeys, restarted>>

\* The celery worker of the job's queue ends a job: its AsyncResult reports
\* SUCCESS or FAILURE from then on.
WorkerEnds(h) ==
  /\ h \in 1..Len(jobs)
  /\ jobs[h].state = "PENDING"
  /\ \E s \in {"SUCCESS", "FAILURE"} : jobs' = [jobs EXCEPT ![h].state = s]
  /\ UNCHANGED <<images, tasks, task_image_id, thr, enq, seenReady,
                 justExpired, pulls, calls, pulledKeys, restarted>>

\* A call enters a method.
Call(t) ==
  \/ PullCall(t)
  \/ LookupCall(t)
  \/ GetStateCall(t)
  \/ ExpireCall(t)

\* A call under way takes its next step.
Run(t) ==
  \/ UpdateStatesRead(t)
  \/ UpdateStatesWrite(t)
  \/ LookupFindOne(t)
  \/ NewImageRecordInsert(t)
  \/ PullSetEnqueued(t)
  \/ PullApplyAsync(t)
  \/ PullTrackAppend(t)
  \/ GetStateFind(t)
  \/ Expire(t)
  \/ Return(t)

Worker == \E h \in 1..MaxPulls : WorkerEnds(h)

\* The threaded server: calls of different threads interleave step by step.
Next ==
  \/ \E t \in Threads : Call(t) \/ Run(t)
  \/ Worker

Spec == Init /\ [][Next]_vars

\* One caller: a call starts only when no other call is under way; the
\* workers run alongside.
OthersIdle(t) == \A u \in Threads \ {t} : thr[u].pc = "idle"

SeqPullCall(t) == OthersIdle(t) /\ PullCall(t)

SeqLookupCall(t) == OthersIdle(t) /\ LookupCall(t)

SeqGetStateCall(t) == OthersIdle(t) /\ GetStateCall(t)

SeqExpireCall(t) == OthersIdle(t) /\ ExpireCall(t)

SeqCall(t) ==
  \/ SeqPullCall(t)
  \/ SeqLookupCall(t)
  \/ SeqGetStateCall(t)
  \/ SeqExpireCall(t)

SeqNext ==
  \/ \E t \in Threads : SeqCall(t) \/ Run(t)
  \/ Worker

SeqSpec == Init /\ [][SeqNext]_vars

\* The API process restarts: __init__, lines 35-37, starts with an empty
\* self.tasks and an empty self.task_image_id; the calls under way are gone
\* with the old process.  The store and the celery jobs live on.
Restart ==
  /\ tasks' = <<>>
  /\ task_image_id' = <<>>
  /\ thr' = [t \in Threads |-> IdleThread]
  /\ restarted' = restarted \cup
       { id \in 1..Len(images) : images[id].status \in {"ENQUEUED", "PENDING"} }
  /\ justExpired' = NoKey
  /\ UNCHANGED <<images, jobs, enq, seenReady, pulls, calls, pulledKeys>>

\* One caller, and a process that may restart at any moment.
RestartNext ==
  \/ \E t \in Threads : SeqCall(t) \/ Run(t)
  \/ Worker
  \/ Restart

RestartSpec == Init /\ [][RestartNext]_vars

\* ---------------------------------------------------------------- claims

\* A thread whose call of op has run to its end and is about to return.
Done(t, op) == thr[t].pc = "done" /\ thr[t].op = op

\* A pull that ended by returning an id (no exception left it).
Returned(t) == Done(t, "pull") /\ thr[t].res.kind = "id"

AllIdle == \A t \in Threads : thr[t].pc = "idle"

\* Handles entered in self.task_image_id for document id.
HandlesOf(id) == { h \in DOMAIN task_image_id : task_image_id[h] = id }

\* C1: a pull of a key whose record is ENQUEUED or PENDING returns that
\* record's id and makes no dispatcher submission.
C1_NoResubmitInFlight ==
  \A t \in Threads :
    (Returned(t) /\ thr[t].preStatus \in {"ENQUEUED", "PENDING"})
      => (thr[t].res.id = thr[t].preId /\ thr[t].nsub = 0)

\* C2: two pull calls of the same never-seen key that run concurrently, with
\* no worker having ended a job of that key, make exactly one dispatcher
\* submission for the key and return the same id.
C2_ConcurrentPullOnce ==
  \A t, u \in Threads :
    ( /\ t # u
      /\ Returned(t) /\ Returned(u)
      /\ thr[t].key = thr[u].key
      /\ thr[t].preStatus = "NONE" /\ thr[u].preStatus = "NONE"
      /\ \A h \in 1..Len(jobs) :
           jobs[h].request = thr[t].key => jobs[h].state = "PENDING" )
      => ( /\ Cardinality({h \in 1..Len(jobs) : jobs[h].request = thr[t].key}) = 1
           /\ thr[t].res.id = thr[u].res.id )

\* C3: the store never holds two records with the same (system, itype, tag).
C3_UniqueKey ==
  \A i, j \in 1..Len(images) :
    ( /\ images[i].system = images[j].system
      /\ images[i].itype = images[j].itype
      /\ images[i].tag = images[j].tag ) => i = j

\* Position of a status on UNKNOWN -> ENQUEUED -> PENDING -> {READY | FAILURE}.
Rank(status) ==
  CASE status = "UNKNOWN" -> 0
    [] status = "ENQUEUED" -> 1
    [] status = "PENDING" -> 2
    [] status \in {"READY", "FAILURE"} -> 3

Forward(old, new) == old = new \/ Rank(old) < Rank(new)

\* C4: every change of a record's status, by any step of any call, moves it
\* forward along UNKNOWN -> ENQUEUED -> PENDING -> {READY | FAILURE}.
C4_StatusForward ==
  [][ \A i \in 1..Len(images) : Forward(images[i].status, images'[i].status) ]_vars

\* C5: a get_state(id) made after a get_state(id) has returned READY returns
\* READY as well.
C5_ReadyStays ==
  \A t \in Threads :
    (Done(t, "get_state") /\ thr[t].preSeen) => thr[t].res = StatusRes("READY")

\* C6: a pull of a key whose record is READY returns the existing record's id,
\* makes no dispatcher submission and adds nothing to the tracked task list.
C6_ReadyPullNoWork ==
  \A t \in Threads :
    ( /\ Done(t, "pull")
      /\ thr[t].preStatus = "READY"
      /\ thr[t].res # ExcRes("AuthError") )
      => ( /\ thr[t].res = IdRes(thr[t].preId)
           /\ thr[t].nsub = 0
           /\ thr[t].ntask = 0 )

\* C6 witness: a pull of a key whose record was READY has returned an id.
C6_Witness ==
  \E t \in Threads : Returned(t) /\ thr[t].preStatus = "READY"

\* C7: a pull of a key with no record, or whose record is FAILURE, that returns
\* leaves the key's record ENQUEUED, has made exactly one submission, on the
\* queue named for the key's system, has entered the handle against the
\* record's id in the dict and the task list, and returns that id.
C7_FreshPullSubmits ==
  \A t \in Threads :
    (Returned(t) /\ thr[t].preStatus \in {"NONE", "FAILURE"})
      => LET id == thr[t].res.id
             h == thr[t].handle
         IN /\ id = FindOne(images, thr[t].key)
            /\ thr[t].preStatus = "FAILURE" => id = thr[t].preId
            /\ images[id].status = "ENQUEUED"
            /\ thr[t].nsub = 1
            /\ h = Len(jobs)
            /\ jobs[h].queue = thr[t].key.system
            /\ jobs[h].request = thr[t].key
            /\ h \in DOMAIN task_image_id /\ task_image_id[h] = id
            /\ thr[t].ntask = 1
            /\ tasks[Len(tasks)] = h

\* C7 witness: a pull of a key whose record was FAILURE has returned an id.
C7_Witness ==
  \E t \in Threads : Returned(t) /\ thr[t].preStatus = "FAILURE"

C9_DispatchFailureRecorded ==
  \A t \in Threads :
    (Done(t, "pull") /\ thr[t].res = ExcRes("DispatchError"))
      => (images[thr[t].id].status = "FAILURE" /\ thr[t].ntask = 0)

\* C10: a lookup of a key made right after an expire of that key has returned
\* finds no record.
C10_ExpireThenNotFound ==
  \A t \in Threads :
    ( /\ Done(t, "lookup")
      /\ thr[t].afterExpire
      /\ thr[t].res # ExcRes("AuthError") ) => thr[t].res = NoRes

\* C11: a get_state of a record that was ENQUEUED or PENDING when the process
\* restarted, made after the worker has ended the record's jobs with SUCCESS,
\* returns READY.
C11_RefreshSurvivesRestart ==
  \A t \in Threads :
    (Done(t, "get_state") /\ thr[t].preLost /\ thr[t].preSucceeded)
      => thr[t].res = StatusRes("READY")

\* C12: a lookup of a key made once the worker has ended with SUCCESS the jobs
\* that pull submitted for the key returns the key's record, with the key's tag
\* and status READY (the lookup runs the status refresh itself).
C12_PullSuccessLookupReady ==
  \A t \in Threads :
    (Done(t, "lookup") /\ thr[t].preSucceeded /\ thr[t].res.kind # "exc")
      => /\ thr[t].res.kind = "rec"
         /\ thr[t].res.tag = thr[t].key.tag
         /\ thr[t].res.status = "READY"

C12_Witness ==
  \E t \in Threads :
    /\ Done(t, "lookup") /\ thr[t].preSucceeded
    /\ thr[t].res.kind = "rec" /\ thr[t].res.status = "READY"
    /\ Len(jobs) = 1

\* C13: a lookup that returns while pull has never been called with its key
\* finds no record (or is refused for its credential), whatever was done with
\* other keys.
C13_NeverPulledNotFound ==
  \A t \in Threads :
    (Done(t, "lookup") /\ thr[t].key \notin pulledKeys)
      => (thr[t].res = NoRes \/ thr[t].res = ExcRes("AuthError"))

C13_Witness ==
  \E t \in Threads :
    /\ Done(t, "lookup") /\ thr[t].key \notin pulledKeys
    /\ thr[t].res = NoRes
    /\ Len(images) > 0

\* C14: a get_state of an id that no record has ends with the NotFound error.
C14_GetStateNotFound ==
  \A t \in Threads :
    (Done(t, "get_state") /\ FindById(images, thr[t].arg) = None)
      => thr[t].res = ExcRes("NotFound")

\* C15: every pull that returns gives the _id of the key's record: the _id the
\* key had when the call was made, if it had a record then, whatever the
\* record's status was, and the one _id the key has in the store.
C15_PullSameId ==
  \A t \in Threads :
    Returned(t)
      => /\ thr[t].res.id = FindOne(images, thr[t].key)
         /\ thr[t].preId # None => thr[t].res.id = thr[t].preId

C15_Witness ==
  \E t \in Threads :
    /\ Returned(t)
    /\ thr[t].preId # None /\ thr[t].res.id = thr[t].preId
    /\ thr[t].preStatus \in {"ENQUEUED", "PENDING", "FAILURE"}

\* C16: every step of an expire of a key that has no record, from the call to
\* its end, leaves the store, the task list and the handle-to-id dict as they
\* were, and the call ends with the acknowledgement, not with an exception.
C16_ExpireNoRecordNoEffect ==
  [][ \A t \in Threads :
        ( /\ thr'[t] # thr[t]
          /\ thr'[t].op = "expire"
          /\ FindOne(images, thr'[t].key) = None )
          => /\ images' = images
             /\ tasks' = tasks
             /\ task_image_id' = task_image_id
             /\ thr'[t].pc = "done" => thr'[t].res = AckRes ]_vars

C16_Witness ==
  \E t \in Threads :
    /\ Done(t, "expire") /\ thr[t].res = AckRes
    /\ FindOne(images, thr[t].key) = None
    /\ Len(tasks) > 0

\* C17: in every state, the intermediate states of interleaved pulls and
\* refreshes included, every handle in self.tasks is a key of
\* self.task_image_id, and no call has ended with the KeyError that
\* update_states raises for a handle without an entry.
C17_TrackedHandlesMapped ==
  /\ \A i \in 1..Len(tasks) : tasks[i] \in DOMAIN task_image_id
  /\ \A t \in Threads : thr[t].res # ExcRes("KeyError")

\* One thread is between its dict entry and its append to the list while the
\* other is inside the refresh loop, about to look a handle up.
C17_Witness ==
  \E t, u \in Threads :
    /\ thr[t].pc = "track_append"
    /\ thr[u].pc = "update_write"
    /\ Len(tasks) > 0

\* The handle submitted last for document id (handles are numbered in the
\* order of their submission).
LastHandle(id) ==
  CHOOSE h \in HandlesOf(id) : \A g \in HandlesOf(id) : g <= h

\* The states handle h can have reported when the loop read it: the state it
\* has, or PENDING if the worker has ended the job since.
Reported(h) == {"PENDING", jobs[h].state}

\* The refresh loop of thread t is over and its caller has not read the store.
Refreshed(t) == thr[t].pc \in {"find_one", "get_find"}

\* C18: when update_states is over, the status of every record with tracked
\* handles is the state its last submitted handle reported, SUCCESS stored as
\* READY, whatever the earlier handles of the record report.
C18_LastHandleWins ==
  \A t \in Threads :
    Refreshed(t) =>
      \A id \in 1..Len(images) :
        HandlesOf(id) # {} =>
          \E s \in Reported(LastHandle(id)) : images[id].status = StoredState(s)

\* Two handles of one record that report different final states.
C18_Witness ==
  \E t \in Threads, id \in 1..Len(images) :
    /\ Refreshed(t)
    /\ Cardinality(HandlesOf(id)) = 2
    /\ \E g \in HandlesOf(id) :
         /\ g # LastHandle(id)
         /\ jobs[g].state \in {"SUCCESS", "FAILURE"}
         /\ jobs[LastHandle(id)].state \in {"SUCCESS", "FAILURE"}
         /\ jobs[g].state # jobs[LastHandle(id)].state
    /\ images[id].status = StoredState(jobs[LastHandle(id)].state)

\* The call of thread record r was made with a credential that authenticate
\* rejects.
Rejected(r) == r.auth \in Credentials /\ ~authenticate(r.auth)

\* C19: every step of a pull or a lookup made with a rejected credential
\* leaves the store, the submitted jobs, the task list and the handle-to-id
\* dict as they were, and the call has ended with the authentication error.
C19_RejectedChangesNothing ==
  [][ \A t \in Threads :
        (thr'[t] # thr[t] /\ Rejected(thr'[t]))
          => /\ images' = images
             /\ jobs' = jobs
             /\ tasks' = tasks
             /\ task_image_id' = task_image_id
             /\ thr'[t].pc = "done"
             /\ thr'[t].res = ExcRes("AuthError") ]_vars

\* A rejected pull of a key whose record is ENQUEUED and tracked.
C19_Witness ==
  \E t \in Threads :
    /\ Done(t, "pull") /\ Rejected(thr[t])
    /\ thr[t].res = ExcRes("AuthError")
    /\ thr[t].preStatus = "ENQUEUED"
    /\ Len(tasks) > 0

====
